---- MODULE Spec2Model ----
(***************************************************************************)
(* Model of pm-app/app/ui/form.tsx: the FieldProvider context, the prop    *)
(* resolver getResolvedFieldProps and the components Field, Select,        *)
(* Textarea, Label and FieldError.                                         *)
(*                                                                         *)
(* JavaScript values are records [t, v]: t is the typeof tag and v the     *)
(* payload as a string, so that the boolean false and the string "false"   *)
(* are different values.  JavaScript objects are functions from key        *)
(* strings to such values; a key that is not in the DOMAIN is a key the    *)
(* object does not have.                                                   *)
(***************************************************************************)
EXTENDS Integers, Sequences, FiniteSets, TLC

VARIABLES context, component, props, resolvedProps, element

vars == <<context, component, props, resolvedProps, element>>

----------------------------------------------------------------------------
(* JavaScript values and the operators form.tsx applies to them *)

Undefined == [t |-> "undefined", v |-> ""]

Null == [t |-> "null", v |-> ""]

Str(s) == [t |-> "string", v |-> s]

Bool(b) == [t |-> "boolean", v |-> IF b THEN "true" ELSE "false"]

\* marks an optional key the caller left out, while an object is being built
Absent == [t |-> "absent", v |-> ""]

EmptyObject == [k \in {} |-> Undefined]

\* o[k] in JavaScript: a missing key reads as undefined
Get(o, k) == IF k \in DOMAIN o THEN o[k] ELSE Undefined

\* o?.k : undefined when o is null
OptGet(o, k) == IF o = Null THEN Undefined ELSE Get(o, k)

\* ToBoolean
Truthy(x) ==
  CASE x.t = "string" -> x.v # ""
    [] x.t = "boolean" -> x.v = "true"
    [] OTHER -> FALSE

\* a ?? b
Coalesce(a, b) == IF a.t \in {"undefined", "null"} THEN b ELSE a

\* a || b
Or(a, b) == IF Truthy(a) THEN a ELSE b

\* `${x}` : the string a template literal makes of a value
TemplateString(x) ==
  CASE x.t = "undefined" -> "undefined"
    [] x.t = "null" -> "null"
    [] OTHER -> x.v

\* { ...a, ...b } : the keys of both, b winning on the keys they share
Spread(a, b) == [k \in DOMAIN a \cup DOMAIN b |-> IF k \in DOMAIN b THEN b[k] ELSE a[k]]

\* const { k1, k2, ...rest } = o : o without the named keys
Omit(o, keys) == [k \in DOMAIN o \ keys |-> o[k]]

\* an object literal whose optional keys are left out when marked Absent
Strip(o) == [k \in {j \in DOMAIN o : o[j] # Absent} |-> o[k]]

\* cx(...) of clsx: the truthy arguments, in order, as the list of class names
Cx(args) ==
  LET F[i \in 0..Len(args)] ==
        IF i = 0 THEN <<>>
        ELSE IF Truthy(args[i]) THEN Append(F[i - 1], args[i].v) ELSE F[i - 1]
  IN F[Len(args)]

----------------------------------------------------------------------------
(* getResolvedFieldProps *)

\* variant: context.invalid is asked before the caller's aria-invalid
AriaInvalidContextFirst(ctx, p) ==
  LET invalid == Coalesce(Get(ctx, "invalid"), Get(p, "aria-invalid"))
  IN IF invalid = Str("false") THEN Bool(FALSE) ELSE Coalesce(invalid, Bool(TRUE))

\* variant: the fallback is false instead of true
AriaInvalidDefaultFalse(ctx, p) ==
  LET invalid == Coalesce(Get(p, "aria-invalid"), Get(ctx, "invalid"))
  IN IF invalid = Str("false") THEN Bool(FALSE) ELSE Coalesce(invalid, Bool(FALSE))

\* variant: (invalid || true) instead of (invalid ?? true)
AriaInvalidOr(ctx, p) ==
  LET invalid == Coalesce(Get(p, "aria-invalid"), Get(ctx, "invalid"))
  IN IF invalid = Str("false") THEN Bool(FALSE) ELSE Or(invalid, Bool(TRUE))

\* const invalid = props["aria-invalid"] ?? context.invalid;
\* ariaProps["aria-invalid"] = invalid === "false" ? false : (invalid ?? true);
AriaInvalid(ctx, p) ==
  LET invalid == Coalesce(Get(p, "aria-invalid"), Get(ctx, "invalid"))
  IN IF invalid = Str("false") THEN Bool(FALSE) ELSE Coalesce(invalid, Bool(TRUE))

\* variant: the derived id replaces the caller's aria-describedby
AriaDescribedByReplaces(ctx, p) == Str(TemplateString(Get(ctx, "id")) \o "-error")

\* props["aria-describedby"] != null ? `${props[..]} ${context.id}-error` : `${context.id}-error`
AriaDescribedBy(ctx, p) ==
  LET own == Get(p, "aria-describedby")
  IN IF own.t \notin {"undefined", "null"}
       THEN Str(TemplateString(own) \o " " \o TemplateString(Get(ctx, "id")) \o "-error")
       ELSE Str(TemplateString(Get(ctx, "id")) \o "-error")

\* the ariaProps object: empty unless context.error and context.id are truthy
AriaProps(ctx, p) ==
  IF ctx # Null /\ Truthy(Get(ctx, "error")) /\ Truthy(Get(ctx, "id"))
    THEN ("aria-describedby" :> AriaDescribedBy(ctx, p)) @@ ("aria-invalid" :> AriaInvalid(ctx, p))
    ELSE EmptyObject

\* variant: without a context nothing is passed on
getResolvedFieldPropsEmptyOnNull(ctx, p) ==
  IF ctx = Null
    THEN EmptyObject
    ELSE LET rest == Omit(ctx, {"error"})
         IN Spread(Spread(rest, p), AriaProps(ctx, p))

getResolvedFieldProps(ctx, p) ==
  IF ctx = Null
    THEN p
    ELSE LET rest == Omit(ctx, {"error"})
         IN Spread(Spread(rest, p), AriaProps(ctx, p))

----------------------------------------------------------------------------
(* The rendered elements.  An element is its tag, its attributes other than *)
(* className, its list of class names and its children; NoRender is the     *)
(* null a component returns to render nothing.                               *)

NoRender == [type |-> "null", props |-> EmptyObject, className |-> <<>>, children |-> <<>>]

\* <div className={cx(className, "ui--form-field-wrapper")}> around the provider
FieldProviderElement(p) ==
  [type |-> "div",
   props |-> EmptyObject,
   className |-> Cx(<<Get(p, "className"), Str("ui--form-field-wrapper")>>),
   children |-> <<Get(p, "children")>>]

\* ({ children, className, ...ctx }) : the value the provider publishes
FieldProviderContext(p) == Omit(p, {"children", "className"})

\* <input type="text" {...resolvedProps} className={cx(props.className, "ui--form-field")} />
FieldElement(ctx, p) ==
  LET resolved == getResolvedFieldProps(ctx, p)
  IN [type |-> "input",
      props |-> Omit(Spread("type" :> Str("text"), resolved), {"className"}),
      className |-> Cx(<<Get(p, "className"), Str("ui--form-field")>>),
      children |-> <<>>]

\* <select {...resolvedProps} className={cx(props.className, "ui--form-field", "ui--form-field--select")} />
SelectElement(ctx, p) ==
  LET resolved == getResolvedFieldProps(ctx, p)
  IN [type |-> "select",
      props |-> Omit(resolved, {"className"}),
      className |-> Cx(<<Get(p, "className"), Str("ui--form-field"), Str("ui--form-field--select")>>),
      children |-> <<>>]

\* const { resize = "y", ...resolvedProps } = getResolvedFieldProps(context, props)
TextareaResize(ctx, p) ==
  LET r == Get(getResolvedFieldProps(ctx, p), "resize")
  IN IF r = Undefined THEN Str("y") ELSE r

\* variant: resize is read but not taken out of the forwarded props
TextareaRestKeepsResize(ctx, p) == getResolvedFieldProps(ctx, p)

TextareaRest(ctx, p) == Omit(getResolvedFieldProps(ctx, p), {"resize"})

\* the object argument of cx: a class name is kept when its condition is true
TextareaResizeClasses(resize) ==
  << IF resize = Bool(TRUE) THEN Str("resize-xy") ELSE Bool(FALSE),
     IF resize = Str("x") THEN Str("resize-x") ELSE Bool(FALSE),
     IF resize = Str("y") THEN Str("resize-y") ELSE Bool(FALSE) >>

TextareaElement(ctx, p) ==
  [type |-> "textarea",
   props |-> Omit(TextareaRest(ctx, p), {"className"}),
   className |-> Cx(<<Get(p, "className"), Str("ui--form-field"), Str("ui--form-field--textarea")>>
                    \o TextareaResizeClasses(TextareaResize(ctx, p))),
   children |-> <<>>]

\* <label htmlFor={ctx?.id || props.htmlFor} {...domProps} className={...}>
LabelElement(ctx, p) ==
  LET domProps == Omit(p, {"className", "children"})
  IN [type |-> "label",
      props |-> Spread("htmlFor" :> Or(OptGet(ctx, "id"), Get(p, "htmlFor")), domProps),
      className |-> Cx(<<Get(p, "className"), Str("ui--form-label")>>),
      children |-> <<Get(p, "children"),
                     IF Truthy(OptGet(ctx, "required")) THEN Str(" (Required)") ELSE Null>>]

\* const error = children || context?.error
FieldErrorMessage(ctx, p) == Or(Get(p, "children"), OptGet(ctx, "error"))

\* variant: an explicit id wins over the derived one
FieldErrorIdPrefersOwn(ctx, p) ==
  IF "id" \in DOMAIN p
    THEN p["id"]
    ELSE IF ctx # Null /\ Truthy(Get(ctx, "id"))
           THEN Str(TemplateString(Get(ctx, "id")) \o "-error")
           ELSE Undefined

\* const idToUse = context && context.id ? `${context.id}-error` : id
FieldErrorId(ctx, p) ==
  IF ctx # Null /\ Truthy(Get(ctx, "id"))
    THEN Str(TemplateString(Get(ctx, "id")) \o "-error")
    ELSE Get(p, "id")

\* variant: no role is set on the element
FieldErrorElementNoRole(ctx, p) ==
  LET domProps == Omit(p, {"className", "id", "children"})
  IN IF ~Truthy(FieldErrorMessage(ctx, p))
       THEN NoRender
       ELSE [type |-> "div",
             props |-> Spread("id" :> FieldErrorId(ctx, p), domProps),
             className |-> Cx(<<Get(p, "className"), Str("ui--form-field-error")>>),
             children |-> <<FieldErrorMessage(ctx, p)>>]

\* if (!error) return null; else <div className role="alert" id={idToUse} {...domProps}>
FieldErrorElement(ctx, p) ==
  LET domProps == Omit(p, {"className", "id", "children"})
  IN IF ~Truthy(FieldErrorMessage(ctx, p))
       THEN NoRender
       ELSE [type |-> "div",
             props |-> Spread(("role" :> Str("alert")) @@ ("id" :> FieldErrorId(ctx, p)), domProps),
             className |-> Cx(<<Get(p, "className"), Str("ui--form-field-error")>>),
             children |-> <<FieldErrorMessage(ctx, p)>>]

----------------------------------------------------------------------------
(* The inputs: the props a caller can pass to each component *)

\* the longest aria-describedby list a caller passes, in tokens
MaxDescribedBy == 1

DescribedByTokens == <<"hint", "help", "note", "tip">>

\* the first n tokens, separated by one space
DescribedByList(n) ==
  LET F[i \in 0..n] ==
        IF i = 0 THEN ""
        ELSE IF i = 1 THEN DescribedByTokens[1]
        ELSE F[i - 1] \o " " \o DescribedByTokens[i]
  IN F[n]

DescribedByValues == {Absent} \cup {Str(DescribedByList(n)) : n \in 0..MaxDescribedBy}

AriaInvalidValues == {Absent, Bool(TRUE), Bool(FALSE), Str("false")}

ClassNameValues == {Absent, Str("mine")}

\* FieldContextValue: id, invalid, required and error, each optional
ContextValues ==
  { Strip([id |-> i, invalid |-> v, required |-> r, error |-> e]) :
      i \in {Absent, Str("f1"), Str("")},
      v \in {Absent, Bool(TRUE), Bool(FALSE), Str("false"), Str("grammar")},
      r \in {Absent, Bool(TRUE)},
      e \in {Absent, Null, Str(""), Str("Required")} }

\* PropsWithChildren<FieldContextValue & { className?: string }>
FieldProviderPropsSet ==
  { Spread(c, Strip([className |-> cn, children |-> Str("fields")])) :
      c \in ContextValues, cn \in ClassNameValues }

\* FieldProps and SelectProps
FieldPropsSet ==
  { Strip(("id" :> i) @@ ("aria-describedby" :> d) @@ ("aria-invalid" :> v) @@ ("className" :> cn)) :
      i \in {Absent, Str("own")}, d \in DescribedByValues,
      v \in AriaInvalidValues, cn \in ClassNameValues }

\* TextareaProps: the same with resize?: "x" | "y" | boolean
TextareaPropsSet ==
  { Spread(p, Strip([resize |-> r])) :
      p \in FieldPropsSet,
      r \in {Absent, Bool(TRUE), Bool(FALSE), Str("x"), Str("y")} }

\* LabelProps
LabelPropsSet ==
  { Strip([htmlFor |-> h, className |-> cn, children |-> Str("Email")]) :
      h \in {Absent, Undefined, Str("other")}, cn \in ClassNameValues }

\* FieldErrorProps
FieldErrorPropsSet ==
  { Strip([id |-> i, role |-> r, className |-> cn, children |-> ch]) :
      i \in {Absent, Str("own")},
      r \in {Absent, Undefined, Str("status")},
      cn \in ClassNameValues,
      ch \in {Absent, Str(""), Str("Custom")} }

----------------------------------------------------------------------------
(* The render pass: a provider may publish a context, then one component   *)
(* below it (or one outside any provider) renders with the context that     *)
(* useFieldContext returns.                                                 *)

Init ==
  /\ context = Null
  /\ component = "none"
  /\ props = EmptyObject
  /\ resolvedProps = EmptyObject
  /\ element = NoRender

FieldProviderRender ==
  /\ component \in {"none", "FieldProvider"}
  /\ \E p \in FieldProviderPropsSet :
       /\ context' = FieldProviderContext(p)
       /\ props' = p
       /\ element' = FieldProviderElement(p)
  /\ component' = "FieldProvider"
  /\ resolvedProps' = EmptyObject

FieldRender ==
  /\ component \in {"none", "FieldProvider"}
  /\ \E p \in FieldPropsSet :
       /\ props' = p
       /\ resolvedProps' = getResolvedFieldProps(context, p)
       /\ element' = FieldElement(context, p)
  /\ component' = "Field"
  /\ UNCHANGED context

SelectRender ==
  /\ component \in {"none", "FieldProvider"}
  /\ \E p \in FieldPropsSet :
       /\ props' = p
       /\ resolvedProps' = getResolvedFieldProps(context, p)
       /\ element' = SelectElement(context, p)
  /\ component' = "Select"
  /\ UNCHANGED context

TextareaRender ==
  /\ component \in {"none", "FieldProvider"}
  /\ \E p \in TextareaPropsSet :
       /\ props' = p
       /\ resolvedProps' = getResolvedFieldProps(context, p)
       /\ element' = TextareaElement(context, p)
  /\ component' = "Textarea"
  /\ UNCHANGED context

LabelRender ==
  /\ component \in {"none", "FieldProvider"}
  /\ \E p \in LabelPropsSet :
       /\ props' = p
       /\ element' = LabelElement(context, p)
  /\ component' = "Label"
  /\ resolvedProps' = EmptyObject
  /\ UNCHANGED context

FieldErrorRender ==
  /\ component \in {"none", "FieldProvider"}
  /\ \E p \in FieldErrorPropsSet :
       /\ props' = p
       /\ element' = FieldErrorElement(context, p)
  /\ component' = "FieldError"
  /\ resolvedProps' = EmptyObject
  /\ UNCHANGED context

\* the subtree unmounts and the context is discarded
Unmount ==
  /\ component # "none"
  /\ context' = Null
  /\ component' = "none"
  /\ props' = EmptyObject
  /\ resolvedProps' = EmptyObject
  /\ element' = NoRender

Next ==
  \/ FieldProviderRender
  \/ FieldRender
  \/ SelectRender
  \/ TextareaRender
  \/ LabelRender
  \/ FieldErrorRender
  \/ Unmount

Spec == Init /\ [][Next]_vars

FieldKinds == {"Field", "Select", "Textarea"}

TypeOK ==
  /\ context \in ContextValues \cup {Null}
  /\ component \in {"none", "FieldProvider", "Label", "FieldError"} \cup FieldKinds

----------------------------------------------------------------------------
(* Properties *)

\* a field component has rendered under a provider
FieldUnderProvider == component \in FieldKinds /\ context # Null

\* ... whose context has a truthy error and a non-empty id
Derives == FieldUnderProvider /\ Truthy(Get(context, "error")) /\ Truthy(Get(context, "id"))

\* "{context.id}-error"
ErrorIdOf(ctx) == TemplateString(Get(ctx, "id")) \o "-error"

AriaKeys == {"aria-describedby", "aria-invalid"}

\* C1: when the context's error is unset, null or empty, the resolved props
\* are the context without `error` and `invalid`, overlaid by the caller's
\* props, with no aria-* key added and neither `error` nor `invalid` as a key.
C1_ContextWithoutErrorAndInvalid ==
  (FieldUnderProvider /\ ~Truthy(Get(context, "error"))) =>
     /\ resolvedProps = Spread(Omit(context, {"error", "invalid"}), props)
     /\ DOMAIN resolvedProps \cap AriaKeys \subseteq DOMAIN props
     /\ DOMAIN resolvedProps \cap {"error", "invalid"} = {}

\* C2: with a truthy error and an id in the context, aria-describedby is
\* "{id}-error" when the caller passed none and "{caller's} {id}-error" when
\* the caller passed one; the id is the context's even if the caller passes
\* an id of its own; the rendered element carries the same value.
C2_DescribedByAppended ==
  Derives =>
     LET derived == ErrorIdOf(context)
         expected == IF "aria-describedby" \in DOMAIN props
                       THEN Str(props["aria-describedby"].v \o " " \o derived)
                       ELSE Str(derived)
     IN /\ Get(resolvedProps, "aria-describedby") = expected
        /\ Get(element.props, "aria-describedby") = expected

C2_Witness ==
  /\ Derives
  /\ Get(props, "aria-describedby") = Str("hint")
  /\ Get(props, "id") = Str("own")
  /\ Get(resolvedProps, "aria-describedby") = Str("hint f1-error")

\* the case of C3: error "Required", id "f1", no aria-describedby and no
\* aria-invalid among the caller's props
C3_Case ==
  /\ FieldUnderProvider
  /\ Get(context, "error") = Str("Required")
  /\ Get(context, "id") = Str("f1")
  /\ DOMAIN props \cap AriaKeys = {}

\* C3 as stated: in that case, whatever context.invalid is, aria-describedby
\* is "f1-error" and aria-invalid is true.
C3_Original ==
  C3_Case =>
     /\ Get(resolvedProps, "aria-describedby") = Str("f1-error")
     /\ Get(resolvedProps, "aria-invalid") = Bool(TRUE)

\* C3 amended: in that case aria-describedby is "f1-error", and aria-invalid
\* is true when context.invalid is unset or true; otherwise it is
\* context.invalid, the string "false" having become the boolean false.
C3_Amended ==
  C3_Case =>
     /\ Get(resolvedProps, "aria-describedby") = Str("f1-error")
     /\ Get(resolvedProps, "aria-invalid") =
          IF "invalid" \notin DOMAIN context \/ context["invalid"] = Bool(TRUE)
            THEN Bool(TRUE)
            ELSE IF context["invalid"] = Str("false") THEN Bool(FALSE) ELSE context["invalid"]

C3_Witness ==
  /\ C3_Case
  /\ "invalid" \notin DOMAIN context
  /\ Get(context, "required") = Bool(TRUE)
  /\ Get(props, "id") = Str("own")
  /\ Get(resolvedProps, "aria-invalid") = Bool(TRUE)
  /\ Get(resolvedProps, "aria-describedby") = Str("f1-error")

\* C4: with a truthy error and an id in the context, aria-invalid is the
\* caller's aria-invalid if passed, else context.invalid if set, else true,
\* and the string "false" chosen on either path becomes the boolean false.
C4_InvalidPriority ==
  Derives =>
     LET chosen == IF "aria-invalid" \in DOMAIN props THEN props["aria-invalid"]
                   ELSE IF "invalid" \in DOMAIN context THEN context["invalid"]
                   ELSE Bool(TRUE)
         expected == IF chosen = Str("false") THEN Bool(FALSE) ELSE chosen
     IN /\ Get(resolvedProps, "aria-invalid") = expected
        /\ Get(resolvedProps, "aria-invalid") # Str("false")
        /\ Get(element.props, "aria-invalid") = expected

C4_Witness ==
  /\ Derives
  /\ Get(props, "aria-invalid") = Str("false")
  /\ Get(context, "invalid") = Bool(TRUE)
  /\ Get(resolvedProps, "aria-invalid") = Bool(FALSE)

\* the case of C5: the context derives, the caller passes no aria-invalid
\* and context.invalid is the boolean false
C5_Case ==
  /\ Derives
  /\ "aria-invalid" \notin DOMAIN props
  /\ Get(context, "invalid") = Bool(FALSE)

\* C5 as stated: in that case aria-invalid is true.
C5_Original == C5_Case => Get(resolvedProps, "aria-invalid") = Bool(TRUE)

\* C5 amended: in that case aria-invalid is the boolean false; ?? replaces
\* only an unset or null context.invalid by true.
C5_Amended == C5_Case => Get(resolvedProps, "aria-invalid") = Bool(FALSE)

C5_Witness ==
  /\ C5_Case
  /\ Get(resolvedProps, "aria-invalid") = Bool(FALSE)
  /\ Get(element.props, "aria-invalid") = Bool(FALSE)

\* C6: a Label under a provider whose context id is set renders with htmlFor
\* equal to the context id, whatever htmlFor the caller passes.
C6_LabelTargetsContextId ==
  (component = "Label" /\ context # Null /\ Truthy(Get(context, "id"))) =>
     Get(element.props, "htmlFor") = context["id"]

\* C7 as stated: whenever FieldError renders an element its role is "alert",
\* whatever the caller's props.
C7_Original ==
  (component = "FieldError" /\ element # NoRender) =>
     Get(element.props, "role") = Str("alert")

\* C7 amended: whenever FieldError renders an element, its role is "alert"
\* unless the caller's props have a role key, and then it is the caller's.
C7_Amended ==
  (component = "FieldError" /\ element # NoRender) =>
     Get(element.props, "role") =
        IF "role" \in DOMAIN props THEN props["role"] ELSE Str("alert")

C7_Witness ==
  /\ component = "FieldError"
  /\ element # NoRender
  /\ "role" \notin DOMAIN props
  /\ "children" \notin DOMAIN props
  /\ Get(element.props, "role") = Str("alert")

\* C8: without a provider the resolved props are the caller's props, with
\* no key added, removed or changed.
C8_NullContextPassThrough ==
  (component \in FieldKinds /\ context = Null) => resolvedProps = props

C8_Witness ==
  /\ component \in FieldKinds
  /\ context = Null
  /\ DOMAIN props = {"id", "aria-describedby", "aria-invalid", "className", "resize"}
  /\ resolvedProps = props

\* the resize class names among a list of class names
ResizeClassesAt(cls) ==
  {i \in 1..Len(cls) : cls[i] \in {"resize-xy", "resize-x", "resize-y"}}

\* C9: Textarea forwards no `resize` key to the textarea element, and its
\* resize class follows the resize option only: true gives resize-xy, "x"
\* resize-x, "y" or no option resize-y, false none; never more than one.
C9_TextareaResize ==
  component = "Textarea" =>
     LET r == Get(props, "resize")
         at == ResizeClassesAt(element.className)
         expected == IF r = Bool(TRUE) THEN {"resize-xy"}
                     ELSE IF r = Str("x") THEN {"resize-x"}
                     ELSE IF r = Str("y") \/ "resize" \notin DOMAIN props THEN {"resize-y"}
                     ELSE {}
     IN /\ "resize" \notin DOMAIN element.props
        /\ {element.className[i] : i \in at} = expected
        /\ Cardinality(at) <= 1

C9_Witness ==
  /\ component = "Textarea"
  /\ context # Null
  /\ Get(props, "resize") = Bool(TRUE)
  /\ Get(props, "className") = Str("mine")
  /\ element.className = <<"mine", "ui--form-field", "ui--form-field--textarea", "resize-xy">>

\* the aria-describedby value v ends with the token tok
EndsWithToken(v, tok) ==
  /\ v.t = "string"
  /\ \/ v.v = tok
     \/ \E d \in DescribedByValues \ {Absent} : v.v = d.v \o " " \o tok

\* the error element FieldError renders is linked: it exists and its id is
\* "{context.id}-error"
ErrorLinked(ctx, el) ==
  /\ el # NoRender
  /\ Get(el.props, "id") = Str(ErrorIdOf(ctx))

\* C10: under one provider, if a field's rendered aria-describedby carries
\* the token "{context.id}-error", the FieldError of that provider renders
\* and its id is that token, whatever id the field or the FieldError is given.
C10_FieldErrorLinked ==
  /\ (component = "FieldError" /\ context # Null) =>
        /\ \A fp \in FieldPropsSet :
             \A el \in {FieldElement(context, fp), SelectElement(context, fp)} :
                EndsWithToken(Get(el.props, "aria-describedby"), ErrorIdOf(context))
                   => ErrorLinked(context, element)
        /\ \A tp \in TextareaPropsSet :
             EndsWithToken(Get(TextareaElement(context, tp).props, "aria-describedby"),
                           ErrorIdOf(context))
                => ErrorLinked(context, element)
  /\ (FieldUnderProvider
        /\ EndsWithToken(Get(element.props, "aria-describedby"), ErrorIdOf(context))) =>
        \A ep \in FieldErrorPropsSet : ErrorLinked(context, FieldErrorElement(context, ep))

C10_Witness ==
  /\ component = "FieldError"
  /\ Truthy(OptGet(context, "error"))
  /\ Get(props, "id") = Str("own")
  /\ "children" \notin DOMAIN props
  /\ Get(element.props, "id") = Str("f1-error")
  /\ \E fp \in FieldPropsSet :
       /\ Get(fp, "id") = Str("own")
       /\ Get(FieldElement(context, fp).props, "aria-describedby") = Str("hint f1-error")

====
